---- MODULE Spec2Model ----
\* A model of OplogObserveDriver (packages/mongo-livedata/oplog_observe_driver.js):
\* the driver's caches (published, unpublished buffer), its three phases, the
\* deferred continuations (initial query, poll query, doneQuerying, fetch loop,
\* fetch callbacks, write-fence tasks) and the environment it talks to (the
\* collection, the oplog, the document fetcher, the multiplexer, the write fence).
\*
\* The observed query is  find({m: true}, {sort: {n: 1}, fields: {n: 1}, limit}).
\* A document is a record [n, m]: n is the sort key and the only published field,
\* m is the field the selector reads.  A collection, a heap or an IdMap is a
\* function from the ids it holds to their documents.
EXTENDS Integers, Sequences, FiniteSets, Bags, TLC

\* ---------------------------------------------------------------- bounds
NumIds == 3
MaxKey == 2
MaxLimit == 1
MaxWrites == 2
MaxTokens == 2
MaxFetchErrors == 1
FenceIds == 2
FenceWrites == 1
RequeryIds == 1
RequeryWrites == 3
BatchIds == 2
BatchWrites == 2
BatchErrors == 2
WindowLimit == 2
WindowIds == 3
WindowWrites == 1

Ids == 1..NumIds
Keys == 1..MaxKey
Docs == [n : Keys, m : BOOLEAN]
Limits == 0..MaxLimit
\* How a heap chooses among elements that compare equal, and how the database
\* orders documents with equal sort keys: by lowest or by highest id.
TieBreaks == {"lo", "hi"}

PHASE == [QUERYING |-> "QUERYING", FETCHING |-> "FETCHING", STEADY |-> "STEADY"]

\* ------------------------------------------------- IdMap / heap interface
Size(h) == Cardinality(DOMAIN h)
Has(h, id) == id \in DOMAIN h
Put(h, id, doc) == [x \in (DOMAIN h) \cup {id} |-> IF x = id THEN doc ELSE h[x]]
Remove(h, id) == [x \in (DOMAIN h) \ {id} |-> h[x]]
EmptyMap == [x \in {} |-> 0]

\* Sorter.getComparator() for the sort specifier {n: 1}
comparator(a, b) == a.n - b.n

PickId(S, tb) ==
  IF tb = "lo" THEN CHOOSE x \in S : \A y \in S : x <= y
               ELSE CHOOSE x \in S : \A y \in S : x >= y

\* MaxHeap.maxElementId / MinMaxHeap.maxElementId: 0 stands for null (empty heap)
maxElementId(h, tb) ==
  IF DOMAIN h = {} THEN 0
  ELSE PickId({x \in DOMAIN h : \A y \in DOMAIN h : comparator(h[x], h[y]) >= 0}, tb)

\* MinMaxHeap.minElementId
minElementId(h, tb) ==
  IF DOMAIN h = {} THEN 0
  ELSE PickId({x \in DOMAIN h : \A y \in DOMAIN h : comparator(h[x], h[y]) <= 0}, tb)

\* matcher.documentMatches(doc).result for the selector {m: true}
documentMatches(doc) == doc.m

\* matcher.canBecomeTrueByModifier(modifier) for the selector {m: true}
canBecomeTrueByModifier(mod) == mod.f = "m" /\ mod.v = 1

\* modifierCanBeDirectlyApplied: no field name of the modifier holds EJSON$
modifierCanBeDirectlyApplied(mod) == ~mod.ejson

\* LocalCollection._modify(doc, {$set: {f: v}})
modify(doc, mod) ==
  IF mod.f = "n" THEN [doc EXCEPT !.n = mod.v] ELSE [doc EXCEPT !.m = (mod.v = 1)]

\* ------------------------------------------------ exceptions and emissions
\* The mutators below are functions of the driver's state s (a record of the
\* driver's fields plus what the step has emitted and thrown so far).  A throw
\* leaves the state as it is at the throw and skips the rest of the step.
Ok(s) == s.thrown = "none"
Throw(s, msg) == IF Ok(s) THEN [s EXCEPT !.thrown = msg] ELSE s

Emit(s, op, id, n) == [s EXCEPT !.emit = Append(@, [op |-> op, id |-> id, n |-> n])]

\* One phase change, as _registerPhaseChange sees it, with what the caller knew.
Transition(s, to, by) ==
  [from |-> s.phase, to |-> to, by |-> by,
   needToFetchEmpty |-> (DOMAIN s.needToFetch = {}),
   queryInFlight |-> (s.polls > 0 \/ s.initialQuery \/ s.waiters # EmptyBag),
   stopped |-> s.stopped]

registerPhaseChange(s, phase, by) ==
  [s EXCEPT !.phase = phase, !.trans = Append(@, Transition(s, phase, by))]

\* ------------------------------------------------------------ poll query
\* The synchronous part of _pollQuery; the deferred part is the action PollQuery.
pollQuery(s, by) ==
  IF ~Ok(s) \/ s.stopped THEN s
  ELSE LET s1 == [s EXCEPT !.needToFetch = EmptyMap,
                           !.currentlyFetching = {},
                           !.fetchGeneration = @ + 1]
           s2 == registerPhaseChange(s1, PHASE.QUERYING, by)
       IN [s2 EXCEPT !.polls = @ + 1]

needToPollQuery(s) ==
  IF ~Ok(s) \/ s.stopped THEN s
  ELSE IF s.phase # PHASE.QUERYING THEN pollQuery(s, "needToPollQuery")
  ELSE [s EXCEPT !.requeryWhenDoneThisQuery = TRUE]

\* ------------------------------------------------------- cache mutators
\* Fault: _addBuffered that announces the buffered document as added.
addBufferedEmittingAdded(s, id, doc) ==
  IF ~Ok(s) THEN s
  ELSE LET b1 == Put(s.buffer, id, doc)
           s1 == Emit(s, "added", id, doc.n)
       IN IF Size(b1) > s.limit
            THEN [s1 EXCEPT !.buffer = Remove(b1, maxElementId(b1, s.tb)),
                            !.safeAppendToBuffer = FALSE]
            ELSE [s1 EXCEPT !.buffer = b1]

addBuffered(s, id, doc) ==
  IF ~Ok(s) THEN s
  ELSE LET b1 == Put(s.buffer, id, doc) IN
       IF Size(b1) > s.limit
         THEN [s EXCEPT !.buffer = Remove(b1, maxElementId(b1, s.tb)),
                        !.safeAppendToBuffer = FALSE]
         ELSE [s EXCEPT !.buffer = b1]

\* Fault: _removeBuffered that also tells the multiplexer the id was removed.
removeBufferedEmittingRemoved(s, id) ==
  IF ~Ok(s) THEN s
  ELSE LET s1 == Emit([s EXCEPT !.buffer = Remove(@, id)], "removed", id, 0) IN
       IF Size(s1.buffer) = 0 /\ ~s1.safeAppendToBuffer THEN needToPollQuery(s1) ELSE s1

\* Fault: _removeBuffered that never asks for a repoll.
removeBufferedWithoutRepoll(s, id) ==
  IF ~Ok(s) THEN s
  ELSE [s EXCEPT !.buffer = Remove(@, id)]

removeBuffered(s, id) ==
  IF ~Ok(s) THEN s
  ELSE LET s1 == [s EXCEPT !.buffer = Remove(@, id)] IN
       IF Size(s1.buffer) = 0 /\ ~s1.safeAppendToBuffer THEN needToPollQuery(s1) ELSE s1

\* Fault: _addPublished that moves the overflowing document to the buffer
\* without calling multiplexer.removed.
addPublishedEvictingSilently(s, id, doc) ==
  IF ~Ok(s) THEN s
  ELSE LET s1 == Emit([s EXCEPT !.published = Put(@, id, doc)], "added", id, doc.n) IN
       IF s.limit > 0 /\ Size(s1.published) > s.limit
         THEN LET overflowingDocId == maxElementId(s1.published, s.tb)
                  overflowingDoc == s1.published[overflowingDocId]
              IN addBuffered([s1 EXCEPT !.published = Remove(@, overflowingDocId)],
                             overflowingDocId, overflowingDoc)
         ELSE s1

\* Fault: _addPublished that never evicts.
addPublishedWithoutEviction(s, id, doc) ==
  IF ~Ok(s) THEN s
  ELSE Emit([s EXCEPT !.published = Put(@, id, doc)], "added", id, doc.n)

addPublished(s, id, doc) ==
  IF ~Ok(s) THEN s
  ELSE LET s1 == Emit([s EXCEPT !.published = Put(@, id, doc)], "added", id, doc.n) IN
       IF s.limit > 0 /\ Size(s1.published) > s.limit
         THEN IF Size(s1.published) # s.limit + 1
                THEN Throw(s1, "After adding to published, documents are overflowing the set")
              ELSE LET overflowingDocId == maxElementId(s1.published, s.tb)
                       overflowingDoc == s1.published[overflowingDocId]
                   IN IF overflowingDocId = id
                        THEN Throw(s1, "The document just added is overflowing the published set")
                      ELSE addBuffered(
                             Emit([s1 EXCEPT !.published = Remove(@, overflowingDocId)],
                                  "removed", overflowingDocId, 0),
                             overflowingDocId, overflowingDoc)
         ELSE s1

\* Fault: _removePublished that never promotes a buffered document.
removePublishedWithoutPromotion(s, id) ==
  IF ~Ok(s) THEN s
  ELSE Emit([s EXCEPT !.published = Remove(@, id)], "removed", id, 0)

\* Fault: _removePublished that promotes the buffer's minimum without taking
\* it out of the buffer.
removePublishedKeepingBuffered(s, id) ==
  IF ~Ok(s) THEN s
  ELSE LET s1 == Emit([s EXCEPT !.published = Remove(@, id)], "removed", id, 0) IN
       IF s.limit = 0 THEN s1
       ELSE IF Size(s1.published) < s.limit /\ Size(s1.buffer) > 0
         THEN LET newDocId == minElementId(s1.buffer, s.tb)
              IN addPublished(s1, newDocId, s1.buffer[newDocId])
       ELSE s1

removePublished(s, id) ==
  IF ~Ok(s) THEN s
  ELSE LET s1 == Emit([s EXCEPT !.published = Remove(@, id)], "removed", id, 0) IN
       IF s.limit = 0 THEN s1
       ELSE IF Size(s1.published) < s.limit
         THEN IF Size(s1.buffer) = 0
                THEN IF ~s1.safeAppendToBuffer /\ s1.phase # PHASE.QUERYING
                       THEN Throw(s1, "At this phase, buffer can be empty only if published contains the whole matching set")
                       ELSE s1
              ELSE LET newDocId == minElementId(s1.buffer, s.tb)
                       newDoc == s1.buffer[newDocId]
                   IN addPublished(removeBuffered(s1, newDocId), newDocId, newDoc)
       ELSE s1

\* The publish projection keeps n only: the diff is empty unless n changed.
changePublished(s, id, oldDoc, newDoc) ==
  IF ~Ok(s) THEN s
  ELSE LET s1 == [s EXCEPT !.published = Put(@, id, newDoc)] IN
       IF newDoc.n # oldDoc.n THEN Emit(s1, "changed", id, newDoc.n) ELSE s1

\* Fault: _addMatching that publishes only while published has room, and never
\* compares the new document with the maximum of published.
addMatchingIgnoringMaxPublished(s, id, doc) ==
  IF ~Ok(s) THEN s
  ELSE LET limit == s.limit
           hasMaxBuffered == limit > 0 /\ Size(s.buffer) > 0
           maxBuffered == s.buffer[maxElementId(s.buffer, s.tb)]
           toPublish == limit = 0 \/ Size(s.published) < limit
           canAppendToBuffer == ~toPublish /\ s.safeAppendToBuffer /\ Size(s.buffer) < limit
           canInsertIntoBuffer == ~toPublish /\ hasMaxBuffered
                                  /\ comparator(doc, maxBuffered) <= 0
       IN IF toPublish THEN addPublished(s, id, doc)
          ELSE IF canAppendToBuffer \/ canInsertIntoBuffer THEN addBuffered(s, id, doc)
          ELSE [s EXCEPT !.safeAppendToBuffer = FALSE]

\* Fault: _addMatching that also publishes a document that ties with the
\* maximum of published.
addMatchingPublishingTies(s, id, doc) ==
  IF ~Ok(s) THEN s
  ELSE IF Has(s.published, id)
    THEN Throw(s, "tried to add something already published")
  ELSE IF s.limit > 0 /\ Has(s.buffer, id)
    THEN Throw(s, "tried to add something already existed in buffer")
  ELSE LET limit == s.limit
           hasMaxBuffered == limit > 0 /\ Size(s.buffer) > 0
           maxPublished == s.published[maxElementId(s.published, s.tb)]
           maxBuffered == s.buffer[maxElementId(s.buffer, s.tb)]
           toPublish == limit = 0 \/ Size(s.published) < limit
                        \/ comparator(doc, maxPublished) <= 0
           canAppendToBuffer == ~toPublish /\ s.safeAppendToBuffer /\ Size(s.buffer) < limit
           canInsertIntoBuffer == ~toPublish /\ hasMaxBuffered
                                  /\ comparator(doc, maxBuffered) <= 0
       IN IF toPublish THEN addPublished(s, id, doc)
          ELSE IF canAppendToBuffer \/ canInsertIntoBuffer THEN addBuffered(s, id, doc)
          ELSE [s EXCEPT !.safeAppendToBuffer = FALSE]

addMatching(s, id, doc) ==
  IF ~Ok(s) THEN s
  ELSE IF Has(s.published, id)
    THEN Throw(s, "tried to add something already published")
  ELSE IF s.limit > 0 /\ Has(s.buffer, id)
    THEN Throw(s, "tried to add something already existed in buffer")
  ELSE LET limit == s.limit
           hasMaxPublished == limit > 0 /\ Size(s.published) > 0
           maxPublished == s.published[maxElementId(s.published, s.tb)]
           hasMaxBuffered == limit > 0 /\ Size(s.buffer) > 0
           maxBuffered == s.buffer[maxElementId(s.buffer, s.tb)]
           toPublish == limit = 0 \/ Size(s.published) < limit
                        \/ comparator(doc, maxPublished) < 0
           canAppendToBuffer == ~toPublish /\ s.safeAppendToBuffer /\ Size(s.buffer) < limit
           canInsertIntoBuffer == ~toPublish /\ hasMaxBuffered
                                  /\ comparator(doc, maxBuffered) <= 0
           toBuffer == canAppendToBuffer \/ canInsertIntoBuffer
       IN IF toPublish THEN addPublished(s, id, doc)
          ELSE IF toBuffer THEN addBuffered(s, id, doc)
          ELSE [s EXCEPT !.safeAppendToBuffer = FALSE]

removeMatching(s, id) ==
  IF ~Ok(s) THEN s
  ELSE IF ~Has(s.published, id) /\ s.limit = 0
    THEN Throw(s, "tried to remove something matching but not cached")
  ELSE IF Has(s.published, id) THEN removePublished(s, id)
  ELSE IF Has(s.buffer, id) THEN removeBuffered(s, id)
  ELSE s

\* ------------------------------------------------------------- handleDoc
\* newDocs is {} for a null document and {doc} otherwise.
handleDoc(s, id, newDocs) ==
  IF ~Ok(s) THEN s
  ELSE LET matchesNow == newDocs # {} /\ \A d \in newDocs : documentMatches(d)
           newDoc == CHOOSE d \in newDocs : TRUE
           publishedBefore == Has(s.published, id)
           bufferedBefore == s.limit > 0 /\ Has(s.buffer, id)
           cachedBefore == publishedBefore \/ bufferedBefore
       IN
       IF matchesNow /\ ~cachedBefore THEN addMatching(s, id, newDoc)
       ELSE IF cachedBefore /\ ~matchesNow THEN removeMatching(s, id)
       ELSE IF cachedBefore /\ matchesNow THEN
         IF publishedBefore THEN
           LET oldDoc == s.published[id]
               minBuffered == s.buffer[minElementId(s.buffer, s.tb)]
               staysInPublished == s.limit = 0 \/ Size(s.buffer) = 0
                                   \/ comparator(newDoc, minBuffered) <= 0
           IN IF staysInPublished THEN changePublished(s, id, oldDoc, newDoc)
              ELSE LET s1 == removePublished(s, id)
                       hasMaxBuffered == Size(s1.buffer) > 0
                       maxBuffered == s1.buffer[maxElementId(s1.buffer, s.tb)]
                       toBuffer == s1.safeAppendToBuffer
                                   \/ (hasMaxBuffered /\ comparator(newDoc, maxBuffered) <= 0)
                   IN IF ~Ok(s1) THEN s1
                      ELSE IF toBuffer THEN addBuffered(s1, id, newDoc)
                      ELSE [s1 EXCEPT !.safeAppendToBuffer = FALSE]
         ELSE
           \* bufferedBefore: the old version is removed by hand, without
           \* _removeBuffered, so that no requery is triggered
           LET s1 == [s EXCEPT !.buffer = Remove(@, id)]
               maxPublished == s1.published[maxElementId(s1.published, s.tb)]
               hasMaxBuffered == Size(s1.buffer) > 0
               maxBuffered == s1.buffer[maxElementId(s1.buffer, s.tb)]
               toPublish == comparator(newDoc, maxPublished) < 0
               staysInBuffer == (~toPublish /\ s1.safeAppendToBuffer)
                                \/ (~toPublish /\ hasMaxBuffered
                                    /\ comparator(newDoc, maxBuffered) <= 0)
           IN IF Size(s1.published) = 0
                THEN Throw(s1, "TypeError")  \* comparator(newDoc, undefined)
              ELSE IF toPublish THEN addPublished(s1, id, newDoc)
              ELSE IF staysInBuffer THEN [s1 EXCEPT !.buffer = Put(@, id, newDoc)]
              ELSE [s1 EXCEPT !.safeAppendToBuffer = FALSE]
       ELSE s

\* ------------------------------------------------------------ phases
\* Fault: _beSteady that hands the pending tokens to onFlush and keeps them in
\* the pending list.
beSteadyKeepingPending(s, by) ==
  IF ~Ok(s) THEN s
  ELSE LET s1 == registerPhaseChange(s, PHASE.STEADY, by)
           writes == s1.writesToCommitWhenWeReachSteady
       IN [s1 EXCEPT !.flushQ = IF writes = <<>> THEN @ ELSE Append(@, writes),
                     !.emit = Append(@, [op |-> "onFlush", id |-> 0, n |-> Len(writes)])]

\* _beSteady: the pending write tokens move into one onFlush callback.
beSteady(s, by) ==
  IF ~Ok(s) THEN s
  ELSE LET s1 == registerPhaseChange(s, PHASE.STEADY, by)
           writes == s1.writesToCommitWhenWeReachSteady
       IN [s1 EXCEPT !.writesToCommitWhenWeReachSteady = <<>>,
                     !.flushQ = IF writes = <<>> THEN @ ELSE Append(@, writes),
                     !.emit = Append(@, [op |-> "onFlush", id |-> 0, n |-> Len(writes)])]

\* The loop that a call of _fetchModifiedDocuments defers; by names the caller.
\* The error a failed fetch of id calls back with; NoError is the null of a
\* fetch that succeeded and of anyError before any failure.
NoError == "none"
FetchError(id) == <<"fetch of 1 failed", "fetch of 2 failed", "fetch of 3 failed">>[id]

LoopOrigins == {"handleOplogEntry", "doneQuerying"}
NewLoop(by) == [pc |-> "start", gen |-> 0, pending |-> EmptyMap, waiting |-> 0,
                anyError |-> NoError, by |-> by]

\* Fault: _fetchModifiedDocuments that defers the loop without registering
\* the phase change.
fetchModifiedDocumentsKeepingPhase(s, by) ==
  IF ~Ok(s) THEN s
  ELSE [s EXCEPT !.loops = @ (+) SetToBag({NewLoop(by)})]

\* The synchronous part of _fetchModifiedDocuments; the deferred loop is the
\* action FetchLoop.
fetchModifiedDocuments(s, by) ==
  IF ~Ok(s) THEN s
  ELSE LET s1 == registerPhaseChange(s, PHASE.FETCHING, by)
       IN [s1 EXCEPT !.loops = @ (+) SetToBag({NewLoop(by)})]

\* -------------------------------------------------- oplog entry handlers
\* An oplog entry is [op, id, ts, o, mod]: o is {doc} for an insert or a
\* replacement and {} otherwise, mod is {modifier} for a $set update.
handleOplogEntryQuerying(s, op) ==
  [s EXCEPT !.needToFetch = Put(@, op.id, op.ts)]

handleOplogEntrySteadyOrFetching(s, op) ==
  LET id == op.id IN
  IF s.phase = PHASE.FETCHING /\ (id \in s.currentlyFetching \/ Has(s.needToFetch, id))
    THEN [s EXCEPT !.needToFetch = Put(@, id, op.ts)]
  ELSE IF op.op = "d" THEN
    IF Has(s.published, id) \/ (s.limit > 0 /\ Has(s.buffer, id))
      THEN removeMatching(s, id) ELSE s
  ELSE IF op.op = "i" THEN
    LET o == CHOOSE d \in op.o : TRUE IN
    IF Has(s.published, id)
      THEN Throw(s, "insert found for already-existing ID in published")
    ELSE IF s.limit > 0 /\ Has(s.buffer, id)
      THEN Throw(s, "insert found for already-existing ID in buffer")
    ELSE IF documentMatches(o) THEN addMatching(s, id, o) ELSE s
  ELSE IF op.op = "u" THEN
    LET isReplace == op.mod = {}
        mod == CHOOSE x \in op.mod : TRUE
        canDirectlyModifyDoc == ~isReplace /\ modifierCanBeDirectlyApplied(mod)
        publishedBefore == Has(s.published, id)
        bufferedBefore == s.limit > 0 /\ Has(s.buffer, id)
    IN IF isReplace THEN handleDoc(s, id, op.o)
       ELSE IF (publishedBefore \/ bufferedBefore) /\ canDirectlyModifyDoc THEN
         LET newDoc == IF Has(s.published, id) THEN s.published[id] ELSE s.buffer[id]
         IN handleDoc(s, id, {modify(newDoc, mod)})
       ELSE IF ~canDirectlyModifyDoc \/ canBecomeTrueByModifier(mod) THEN
         LET s1 == [s EXCEPT !.needToFetch = Put(@, id, op.ts)]
         IN IF s1.phase = PHASE.STEADY
              THEN fetchModifiedDocuments(s1, "handleOplogEntry") ELSE s1
       ELSE s
  ELSE Throw(s, "XXX SURPRISING OPERATION")

\* The callback the constructor registers with onOplogEntry.
onOplogEntry(s, op) ==
  IF op.op = "drop" THEN needToPollQuery(s)
  ELSE IF s.phase = PHASE.QUERYING THEN handleOplogEntryQuerying(s, op)
  ELSE handleOplogEntrySteadyOrFetching(s, op)

\* ------------------------------------------------------------- queries
Restrict(h, S) == [x \in S |-> h[x]]

RECURSIVE SortIds(_, _, _)
SortIds(h, S, tb) ==
  IF S = {} THEN <<>>
  ELSE LET x == minElementId(Restrict(h, S), tb)
       IN <<x>> \o SortIds(h, S \ {x}, tb)

Take(q, k) == IF Len(q) <= k THEN q ELSE SubSeq(q, 1, k)
Drop(q, k) == IF Len(q) <= k THEN <<>> ELSE SubSeq(q, k + 1, Len(q))
Range(q) == {q[i] : i \in DOMAIN q}

\* _cursorForQuery({limit: k}) run on the collection coll: the ids of the
\* matching documents in sort order, the first k of them when k > 0.
cursorForQuery(coll, k, tb) ==
  LET all == SortIds(coll, {x \in DOMAIN coll : documentMatches(coll[x])}, tb)
  IN IF k > 0 THEN Take(all, k) ELSE all

RECURSIVE removeEach(_, _)
removeEach(s, ids) ==
  IF ids = <<>> THEN s ELSE removeEach(removePublished(s, Head(ids)), Tail(ids))

RECURSIVE handleEach(_, _, _)
handleEach(s, ids, coll) ==
  IF ids = <<>> THEN s
  ELSE handleEach(handleDoc(s, Head(ids), {coll[Head(ids)]}), Tail(ids), coll)

RECURSIVE bufferEach(_, _, _)
bufferEach(s, ids, coll) ==
  IF ids = <<>> THEN s
  ELSE bufferEach(addBuffered(s, Head(ids), coll[Head(ids)]), Tail(ids), coll)

RECURSIVE addEach(_, _, _)
addEach(s, ids, coll) ==
  IF ids = <<>> THEN s
  ELSE addEach(addMatching(s, Head(ids), coll[Head(ids)]), Tail(ids), coll)

\* newResults and newBuffer are the ids in cursor order, coll holds their documents.
\* After stop() _published and _unpublishedBuffer are null.
publishNewResults(s, newResults, newBuffer, coll) ==
  IF ~Ok(s) THEN s
  ELSE IF s.stopped THEN Throw(s, "TypeError")
  ELSE LET s1 == IF s.limit > 0 THEN [s EXCEPT !.buffer = EmptyMap] ELSE s
           idsToRemove == SortIds([x \in DOMAIN s1.published |-> [n |-> x]],
                                  DOMAIN s1.published \ Range(newResults), "lo")
           s2 == removeEach(s1, idsToRemove)
           s3 == handleEach(s2, newResults, coll)
           s4 == IF ~Ok(s3) THEN s3
                 ELSE IF Size(s3.published) # Len(newResults)
                   THEN Throw(s3, "failed to copy newResults into _published!")
                 ELSE IF \E x \in DOMAIN s3.published : x \notin Range(newResults)
                   THEN Throw(s3, "_published has a doc that newResults doesn't")
                 ELSE s3
           s5 == bufferEach(s4, newBuffer, coll)
       IN IF ~Ok(s5) THEN s5
          ELSE [s5 EXCEPT !.safeAppendToBuffer = Len(newBuffer) < s.limit]

\* _doneQuerying up to its suspension in waitUntilCaughtUp(): the continuation
\* waits until the oplog entries written so far (upTo of them) are processed.
doneQuerying(s, upTo) ==
  IF ~Ok(s) \/ s.stopped THEN s
  ELSE [s EXCEPT !.waiters = @ (+) SetToBag({upTo})]

\* _doneQuerying after waitUntilCaughtUp() has returned.
doneQueryingCaughtUp(s) ==
  IF s.stopped THEN s
  ELSE IF s.phase # PHASE.QUERYING THEN Throw(s, "Phase unexpectedly")
  ELSE IF s.requeryWhenDoneThisQuery
    THEN pollQuery([s EXCEPT !.requeryWhenDoneThisQuery = FALSE], "doneQuerying")
  ELSE IF Size(s.needToFetch) = 0 THEN beSteady(s, "doneQuerying")
  ELSE fetchModifiedDocuments(s, "doneQuerying")

runInitialQuery(s, coll, tb, upTo) ==
  IF s.stopped THEN Throw(s, "oplog stopped surprisingly early")
  ELSE LET initialCursor == cursorForQuery(coll, s.limit * 2, tb)
           s1 == addEach(s, initialCursor, coll)
           fetchedDocsCount == Len(initialCursor)
       IN IF ~Ok(s1) THEN s1
          ELSE doneQuerying(
                 [s1 EXCEPT !.safeAppendToBuffer = fetchedDocsCount < s.limit * 2,
                            !.emit = Append(@, [op |-> "ready", id |-> 0, n |-> 0])],
                 upTo)

\* The function _pollQuery defers.
pollQueryDeferred(s, coll, tb, upTo) ==
  LET cursor == cursorForQuery(coll, s.limit * 2, tb)
      newResults == IF s.limit = 0 THEN cursor ELSE Take(cursor, s.limit)
      newBuffer == IF s.limit = 0 THEN <<>> ELSE Drop(cursor, s.limit)
  IN doneQuerying(publishNewResults(s, newResults, newBuffer, coll), upTo)

\* ---------------------------------------------------------- fetch loop
\* The function _fetchModifiedDocuments defers, from the head of its while loop
\* to fut.wait() or to its end.  by names the caller that deferred the loop.
fetchLoopHead(s, by) ==
  IF ~Ok(s) THEN s
  ELSE IF ~s.stopped /\ Size(s.needToFetch) # 0 THEN
    IF s.phase # PHASE.FETCHING THEN Throw(s, "phase in fetchModifiedDocuments")
    ELSE LET thisGeneration == s.fetchGeneration + 1
             batch == [pc |-> "waiting", gen |-> thisGeneration,
                       pending |-> s.needToFetch, waiting |-> Size(s.needToFetch),
                       anyError |-> NoError, by |-> by]
         IN [s EXCEPT !.currentlyFetching = DOMAIN s.needToFetch,
                      !.fetchGeneration = thisGeneration,
                      !.needToFetch = EmptyMap,
                      !.loops = @ (+) SetToBag({batch})]
  ELSE beSteady(s, "fetchModifiedDocuments")

\* After fut.wait() has returned.
fetchLoopResume(s, l) ==
  IF l.anyError # NoError THEN Throw(s, l.anyError)
  ELSE IF s.phase = PHASE.QUERYING THEN s
  ELSE fetchLoopHead([s EXCEPT !.currentlyFetching = {}], l.by)

\* Fault: a fetch callback that does not compare its generation with
\* _fetchGeneration.
fetchCallbackIgnoringGeneration(s, l, id, err, docs) ==
  LET s1 == IF err # NoError THEN s
            ELSE IF ~s.stopped /\ s.phase = PHASE.FETCHING
              THEN handleDoc(s, id, docs)
            ELSE s
      pending == Remove(l.pending, id)
      l1 == IF ~Ok(s1)
              THEN [l EXCEPT !.pending = pending]
            ELSE [l EXCEPT !.pending = pending,
                           !.anyError = IF err # NoError /\ @ = NoError THEN err ELSE @,
                           !.waiting = @ - 1,
                           !.pc = IF l.waiting = 1 THEN "resume" ELSE "waiting"]
  IN [s1 EXCEPT !.loops = @ (+) SetToBag({l1})]

\* The callback of docFetcher.fetch for id in the batch l; docs is what the
\* fetch read ({} for null), err is the error of a fetch that failed.
fetchCallback(s, l, id, err, docs) ==
  LET s1 == IF err # NoError THEN s
            ELSE IF ~s.stopped /\ s.phase = PHASE.FETCHING
                    /\ s.fetchGeneration = l.gen
              THEN handleDoc(s, id, docs)
            ELSE s
      pending == Remove(l.pending, id)
      l1 == IF ~Ok(s1)
              THEN [l EXCEPT !.pending = pending]
            ELSE [l EXCEPT !.pending = pending,
                           !.anyError = IF err # NoError /\ @ = NoError THEN err ELSE @,
                           !.waiting = @ - 1,
                           !.pc = IF l.waiting = 1 THEN "resume" ELSE "waiting"]
  IN [s1 EXCEPT !.loops = @ (+) SetToBag({l1})]

\* ------------------------------------------------------------- state
VARIABLES
  scope,              \* this run: the ids the collection may hold, the writes it takes,
                      \* the fetches that may fail, the limits the query may have
  db,                 \* the collection: id -> document
  oplog,              \* oplog entries written and not yet processed by the tailer
  nWrites,            \* number of oplog entries written so far (the last timestamp)
  limit,              \* _limit
  published,          \* _published
  buffer,             \* _unpublishedBuffer
  safeAppendToBuffer, \* _safeAppendToBuffer
  phase,              \* _phase
  stopped,            \* _stopped
  needToFetch,        \* _needToFetch: id -> cache key (timestamp)
  currentlyFetching,  \* _currentlyFetching: its ids, {} for null
  fetchGeneration,    \* _fetchGeneration
  requeryWhenDoneThisQuery,
  writesToCommitWhenWeReachSteady,
  initialQuery,       \* the deferred _runInitialQuery has not run yet
  polls,              \* deferred _pollQuery continuations that have not run yet
  waiters,            \* _doneQuerying calls suspended in waitUntilCaughtUp
  loops,              \* fetch loops: deferred, waiting for a batch, or resumable
  fenceTasks,         \* deferred write-fence tasks: [tok, upTo]
  flushQ,             \* multiplexer.onFlush callbacks not yet run: token lists
  committed,          \* token -> number of committed() calls
  fetchErrors,        \* fetches that have failed so far
  client,             \* the emitted callbacks replayed on an empty set: id -> n
  net,                \* added minus removed emitted so far
  emitted,            \* the multiplexer calls of the last step, in order
  transitions,        \* the phase changes of the last step, in order
  wellOrdered,        \* no changed or removed was emitted for an id not added
  error               \* the last error thrown ("none" when there was none)

vars == <<scope, db, oplog, nWrites, limit, published, buffer, safeAppendToBuffer, phase,
          stopped, needToFetch, currentlyFetching, fetchGeneration,
          requeryWhenDoneThisQuery, writesToCommitWhenWeReachSteady, initialQuery,
          polls, waiters, loops, fenceTasks, flushQ, committed, fetchErrors,
          client, net, emitted, transitions, wellOrdered, error>>

envVars == <<scope, db, oplog, nWrites>>
fenceVars == <<fenceTasks, committed>>

\* Entries the oplog tailer has processed so far.
Processed == nWrites - Len(oplog)

\* The driver's fields as the mutators read them, at the start of a step.
Self(tb) ==
  [published |-> published, buffer |-> buffer,
   safeAppendToBuffer |-> safeAppendToBuffer, phase |-> phase,
   needToFetch |-> needToFetch, currentlyFetching |-> currentlyFetching,
   fetchGeneration |-> fetchGeneration,
   requeryWhenDoneThisQuery |-> requeryWhenDoneThisQuery,
   writesToCommitWhenWeReachSteady |-> writesToCommitWhenWeReachSteady,
   initialQuery |-> initialQuery, polls |-> polls, waiters |-> waiters,
   loops |-> loops, flushQ |-> flushQ,
   limit |-> limit, stopped |-> stopped, tb |-> tb,
   emit |-> <<>>, trans |-> <<>>, thrown |-> "none"]

\* The emitted added/changed/removed callbacks applied to a client's set.
RECURSIVE Replay(_, _)
Replay(c, calls) ==
  IF calls = <<>> THEN c
  ELSE LET e == Head(calls)
           c1 == IF e.op = "added" THEN Put(c, e.id, e.n)
                 ELSE IF e.op = "changed" /\ Has(c, e.id) THEN Put(c, e.id, e.n)
                 ELSE IF e.op = "removed" THEN Remove(c, e.id)
                 ELSE c
       IN Replay(c1, Tail(calls))

\* Every changed(id) and removed(id) of calls finds id added, when the calls
\* are applied in order to the client's set c.
RECURSIVE WellOrdered(_, _)
WellOrdered(c, calls) ==
  IF calls = <<>> THEN TRUE
  ELSE LET e == Head(calls)
       IN /\ e.op \in {"changed", "removed"} => Has(c, e.id)
          /\ WellOrdered(Replay(c, <<e>>), Tail(calls))

Count(calls, op) == Cardinality({i \in DOMAIN calls : calls[i].op = op})

\* The driver's fields after a step that ended in s.
Commit(s) ==
  /\ published' = s.published
  /\ buffer' = s.buffer
  /\ safeAppendToBuffer' = s.safeAppendToBuffer
  /\ phase' = s.phase
  /\ needToFetch' = s.needToFetch
  /\ currentlyFetching' = s.currentlyFetching
  /\ fetchGeneration' = s.fetchGeneration
  /\ requeryWhenDoneThisQuery' = s.requeryWhenDoneThisQuery
  /\ writesToCommitWhenWeReachSteady' = s.writesToCommitWhenWeReachSteady
  /\ initialQuery' = s.initialQuery
  /\ polls' = s.polls
  /\ waiters' = s.waiters
  /\ loops' = s.loops
  /\ flushQ' = s.flushQ
  /\ emitted' = s.emit
  /\ transitions' = s.trans
  /\ client' = Replay(client, s.emit)
  /\ wellOrdered' = (wellOrdered /\ WellOrdered(client, s.emit))
  /\ net' = net + Count(s.emit, "added") - Count(s.emit, "removed")
  /\ error' = IF s.thrown # "none" THEN s.thrown ELSE error
  /\ UNCHANGED <<limit, stopped>>

\* A step that runs no driver code.
Quiet ==
  /\ UNCHANGED <<emitted, transitions, limit, published, buffer, safeAppendToBuffer, phase, stopped,
                 needToFetch, currentlyFetching, fetchGeneration,
                 requeryWhenDoneThisQuery, writesToCommitWhenWeReachSteady,
                 initialQuery, polls, waiters, loops, flushQ, client, net, wellOrdered, error>>

\* The constructor: phase QUERYING, empty caches, _runInitialQuery deferred.
\* The collection holds any documents when the driver is constructed.
Constructed(run) ==
  /\ scope = run
  /\ db \in UNION {[S -> Docs] : S \in SUBSET run.ids}
  /\ oplog = <<>>
  /\ nWrites = 0
  /\ limit \in run.limits
  /\ published = EmptyMap
  /\ buffer = EmptyMap
  /\ safeAppendToBuffer = FALSE
  /\ phase = PHASE.QUERYING
  /\ stopped = FALSE
  /\ needToFetch = EmptyMap
  /\ currentlyFetching = {}
  /\ fetchGeneration = 0
  /\ requeryWhenDoneThisQuery = FALSE
  /\ writesToCommitWhenWeReachSteady = <<>>
  /\ initialQuery = TRUE
  /\ polls = 0
  /\ waiters = EmptyBag
  /\ loops = EmptyBag
  /\ fenceTasks = {}
  /\ flushQ = <<>>
  /\ committed = EmptyMap
  /\ fetchErrors = 0
  /\ client = EmptyMap
  /\ net = 0
  /\ emitted = <<>>
  /\ transitions = <<>>
  /\ wellOrdered = TRUE
  /\ error = "none"

Init == Constructed([ids |-> Ids, writes |-> MaxWrites, errors |-> 0, limits |-> Limits])

\* The same driver over a collection of at most FenceIds documents that takes
\* FenceWrites writes, for the runs that follow write tokens and failing fetches.
InitFence == Constructed([ids |-> 1..FenceIds, writes |-> FenceWrites, errors |-> MaxFetchErrors, limits |-> Limits])

\* The same driver over a collection of at most RequeryIds documents that takes
\* RequeryWrites writes, for the runs in which a fetch outlives a requery.
InitRequery == Constructed([ids |-> 1..RequeryIds, writes |-> RequeryWrites, errors |-> 0, limits |-> Limits])

\* ------------------------------------------------- the environment's steps
Entry(op, id, o, mod) == [op |-> op, id |-> id, ts |-> nWrites + 1, o |-> o, mod |-> mod]

Written(newDb, entry) ==
  /\ nWrites < scope.writes
  /\ ~stopped
  /\ db' = newDb
  /\ scope' = scope
  /\ oplog' = Append(oplog, entry)
  /\ nWrites' = nWrites + 1
  /\ Quiet
  /\ UNCHANGED <<fenceTasks, committed, fetchErrors>>

Modifiers == [f : {"n"}, v : Keys, ejson : BOOLEAN] \cup [f : {"m"}, v : {0, 1}, ejson : BOOLEAN]

DbInsert ==
  \E id \in scope.ids \ DOMAIN db : \E doc \in Docs :
    Written(Put(db, id, doc), Entry("i", id, {doc}, {}))

DbReplace ==
  \E id \in DOMAIN db : \E doc \in Docs \ {db[id]} :
    Written(Put(db, id, doc), Entry("u", id, {doc}, {}))

DbModify ==
  \E id \in DOMAIN db : \E mod \in Modifiers :
    /\ modify(db[id], mod) # db[id]
    /\ Written(Put(db, id, modify(db[id], mod)), Entry("u", id, {}, {mod}))

DbRemove ==
  \E id \in DOMAIN db : Written(Remove(db, id), Entry("d", id, {}, {}))

DbDropCollection ==
  Written(EmptyMap, Entry("drop", 0, {}, {}))

\* The oplog tailer processes the next entry: the driver's onOplogEntry callback
\* runs unless stop() has stopped the handle.
OplogEntry ==
  /\ oplog # <<>>
  /\ oplog' = Tail(oplog)
  /\ IF stopped THEN Quiet
     ELSE \E tb \in TieBreaks : Commit(onOplogEntry(Self(tb), Head(oplog)))
  /\ UNCHANGED <<scope, db, nWrites, fenceTasks, committed, fetchErrors>>

\* ------------------------------------------------ the deferred continuations
RunInitialQuery ==
  /\ initialQuery
  /\ \E tb \in TieBreaks, qt \in TieBreaks :
       Commit(runInitialQuery([Self(tb) EXCEPT !.initialQuery = FALSE], db, qt, nWrites))
  /\ UNCHANGED <<envVars, fenceVars, fetchErrors>>

PollQuery ==
  /\ polls > 0
  /\ \E tb \in TieBreaks, qt \in TieBreaks :
       Commit(pollQueryDeferred([Self(tb) EXCEPT !.polls = @ - 1], db, qt, nWrites))
  /\ UNCHANGED <<envVars, fenceVars, fetchErrors>>

DoneQuerying ==
  \E upTo \in BagToSet(waiters) :
    /\ Processed >= upTo
    /\ \E tb \in TieBreaks :
         Commit(doneQueryingCaughtUp(
                  [Self(tb) EXCEPT !.waiters = @ (-) SetToBag({upTo})]))
    /\ UNCHANGED <<envVars, fenceVars, fetchErrors>>

FetchLoopStart ==
  \E by \in LoopOrigins :
    /\ BagIn(NewLoop(by), loops)
    /\ \E tb \in TieBreaks :
         Commit(fetchLoopHead([Self(tb) EXCEPT !.loops = @ (-) SetToBag({NewLoop(by)})], by))
    /\ UNCHANGED <<envVars, fenceVars, fetchErrors>>

FetchLoopResume ==
  \E l \in BagToSet(loops) :
    /\ l.pc = "resume"
    /\ \E tb \in TieBreaks :
         Commit(fetchLoopResume([Self(tb) EXCEPT !.loops = @ (-) SetToBag({l})], l))
    /\ UNCHANGED <<envVars, fenceVars, fetchErrors>>

FetchReturns ==
  \E l \in {x \in BagToSet(loops) : x.pc = "waiting"} : \E id \in DOMAIN l.pending :
    /\ \E tb \in TieBreaks :
         Commit(fetchCallback([Self(tb) EXCEPT !.loops = @ (-) SetToBag({l})], l, id, NoError,
                              IF id \in DOMAIN db THEN {db[id]} ELSE {}))
    /\ UNCHANGED <<envVars, fenceVars, fetchErrors>>

FetchFails ==
  \E l \in {x \in BagToSet(loops) : x.pc = "waiting"} : \E id \in DOMAIN l.pending :
    /\ fetchErrors < scope.errors
    /\ fetchErrors' = fetchErrors + 1
    /\ \E tb \in TieBreaks :
         Commit(fetchCallback([Self(tb) EXCEPT !.loops = @ (-) SetToBag({l})], l, id, FetchError(id), {}))
    /\ UNCHANGED <<envVars, fenceVars>>

\* --------------------------------------------------------- write fence
\* The listenAll callback under a write fence: fence.beginWrite() and a deferred
\* task that first waits for the oplog to catch up.
ListenAll ==
  /\ ~stopped
  /\ Size(committed) < MaxTokens
  /\ LET write == Size(committed) + 1 IN
       /\ committed' = Put(committed, write, 0)
       /\ fenceTasks' = fenceTasks \cup {[tok |-> write, upTo |-> nWrites]}
  /\ Quiet
  /\ UNCHANGED <<envVars, fetchErrors>>

CommitAll(c, writes) == [w \in DOMAIN c |-> c[w] + Count([i \in DOMAIN writes |-> [op |-> writes[i]]], w)]

\* The deferred task of the listenAll callback, after waitUntilCaughtUp().
FenceTask ==
  \E t \in fenceTasks :
    /\ Processed >= t.upTo
    /\ fenceTasks' = fenceTasks \ {t}
    /\ IF stopped
         THEN /\ committed' = CommitAll(committed, <<t.tok>>)
              /\ Quiet
       ELSE IF phase = PHASE.STEADY
         THEN /\ Commit([Self("lo") EXCEPT
                           !.flushQ = Append(@, <<t.tok>>),
                           !.emit = <<[op |-> "onFlush", id |-> 0, n |-> 1]>>])
              /\ UNCHANGED committed
       ELSE /\ Commit([Self("lo") EXCEPT
                         !.writesToCommitWhenWeReachSteady = Append(@, t.tok)])
            /\ UNCHANGED committed
    /\ UNCHANGED <<envVars, fetchErrors>>

\* The multiplexer runs the oldest onFlush callback.
Flush ==
  /\ flushQ # <<>>
  /\ committed' = CommitAll(committed, Head(flushQ))
  /\ flushQ' = Tail(flushQ)
  /\ UNCHANGED <<envVars, emitted, transitions, limit, published, buffer, safeAppendToBuffer, phase, stopped,
                 needToFetch, currentlyFetching, fetchGeneration,
                 requeryWhenDoneThisQuery, writesToCommitWhenWeReachSteady,
                 initialQuery, polls, waiters, loops, client, net, wellOrdered, error,
                 fenceTasks, fetchErrors>>

\* stop(), which the multiplexer calls once it is ready and has no handles left.
Stop ==
  /\ ~initialQuery
  /\ IF stopped THEN UNCHANGED vars
     ELSE /\ stopped' = TRUE
          /\ committed' = CommitAll(committed, writesToCommitWhenWeReachSteady)
          /\ writesToCommitWhenWeReachSteady' = <<>>
          /\ published' = EmptyMap
          /\ buffer' = EmptyMap
          /\ needToFetch' = EmptyMap
          /\ currentlyFetching' = {}
          /\ UNCHANGED <<envVars, emitted, transitions, limit, safeAppendToBuffer, phase,
                         fetchGeneration, requeryWhenDoneThisQuery, initialQuery, polls,
                         waiters, loops, flushQ, client, net, wellOrdered, error,
                         fenceTasks, fetchErrors>>

Next ==
  \/ DbInsert
  \/ DbReplace
  \/ DbModify
  \/ DbRemove
  \/ DbDropCollection
  \/ OplogEntry
  \/ RunInitialQuery
  \/ PollQuery
  \/ DoneQuerying
  \/ FetchLoopStart
  \/ FetchLoopResume
  \/ FetchReturns
  \/ Stop

Spec == Init /\ [][Next]_vars

NextFence ==
  \/ Next
  \/ FetchFails
  \/ ListenAll
  \/ FenceTask
  \/ Flush

SpecFence == InitFence /\ [][NextFence]_vars

SpecRequery == InitRequery /\ [][Next]_vars

\* Runs in which fetches may fail: two ids, two writes, so that a batch holds
\* two fetches, and either of them or both may fail.
InitBatch == Constructed([ids |-> 1..BatchIds, writes |-> BatchWrites, errors |-> BatchErrors, limits |-> Limits])

NextBatch ==
  \/ Next
  \/ FetchFails

SpecBatch == InitBatch /\ [][NextBatch]_vars

\* Runs of a query with a limit up to WindowLimit over WindowIds documents:
\* the collection can hold more matching documents than the limit and fewer
\* than twice the limit.
InitWindow ==
  Constructed([ids |-> 1..WindowIds, writes |-> WindowWrites, errors |-> 0,
               limits |-> 0..WindowLimit])

SpecWindow == InitWindow /\ [][Next]_vars

\* ================================================================ claims
Matching == {x \in DOMAIN db : documentMatches(db[x])}
Min(a, b) == IF a <= b THEN a ELSE b

\* The driver has nothing left to do: every oplog entry written has been
\* processed and no query, fetch or continuation is outstanding.
Quiescent ==
  /\ oplog = <<>>
  /\ ~initialQuery
  /\ polls = 0
  /\ waiters = EmptyBag
  /\ loops = EmptyBag

\* h holds a current result of the observed query: documents of the collection
\* that match, all of them for an unlimited query, and for a limited query
\* min(limit, number matching) of them, none sorting after a matching document
\* that is left out.
IsQueryResult(h) ==
  /\ DOMAIN h \subseteq Matching
  /\ \A x \in DOMAIN h : h[x] = db[x]
  /\ IF limit = 0 THEN DOMAIN h = Matching
     ELSE /\ Size(h) = Min(limit, Cardinality(Matching))
          /\ \A x \in DOMAIN h : \A y \in Matching \ DOMAIN h :
               comparator(db[x], db[y]) <= 0

\* C1: in STEADY, not stopped, with every oplog entry processed and no fetch or
\* query outstanding, published equals the current result of the observed query.
C1_PublishedIsQueryResult ==
  (phase = PHASE.STEADY /\ ~stopped /\ Quiescent) => IsQueryResult(published)

\* C2: before stop, the emitted callbacks replayed on an empty set give exactly
\* the ids and published fields of published, and added minus removed equals
\* the size of published.
C2_ReplayIsPublished ==
  ~stopped =>
    /\ DOMAIN client = DOMAIN published
    /\ \A x \in DOMAIN client : client[x] = published[x].n
    /\ net = Size(published)

C2_Witness ==
  /\ ~stopped
  /\ Size(published) > 0
  /\ Count(emitted, "removed") > 0
  /\ Count(emitted, "added") > 0

\* C3: limited query, STEADY, buffer empty and safeAppendToBuffer false: every
\* matching document of the collection is in published.
C3_EmptyBufferMeansAllPublished ==
  (limit > 0 /\ phase = PHASE.STEADY /\ ~stopped /\ oplog = <<>>
   /\ Size(buffer) = 0 /\ ~safeAppendToBuffer)
    => Cardinality(Matching) = Size(published)

\* C4: for a limited query the size of published is at most limit.
C4_PublishedWithinLimit ==
  limit > 0 => Size(published) <= limit

C4_Witness ==
  limit > 0 /\ Size(published) = limit /\ Size(buffer) > 0 /\ nWrites > 0 /\ oplog = <<>>

\* C5: for a limited query no id is in both published and the buffer.
C5_Disjoint ==
  limit > 0 => DOMAIN published \cap DOMAIN buffer = {}

C5_Witness ==
  limit > 0 /\ Size(published) > 0 /\ Size(buffer) > 0 /\ Count(emitted, "removed") > 0

\* C6: for a limited query with published and buffer both non-empty, the
\* maximum of published is at most the minimum of the buffer.
C6_PublishedBeforeBuffer ==
  (limit > 0 /\ Size(published) > 0 /\ Size(buffer) > 0) =>
    \A x \in DOMAIN published : \A y \in DOMAIN buffer :
      comparator(published[x], buffer[y]) <= 0

C6_Witness ==
  /\ limit > 0
  /\ \E x \in DOMAIN published : \E y \in DOMAIN buffer :
       comparator(published[x], buffer[y]) < 0
  /\ Count(emitted, "changed") > 0

\* C7: changed(id) and removed(id) are emitted only while id is added.
C7_EmissionsWellOrdered == wellOrdered

C7_Witness ==
  /\ wellOrdered
  /\ Len(emitted) >= 2
  /\ emitted[1].op = "removed"
  /\ emitted[2].op = "added"

\* C10: every phase change is one of the six transitions, under its trigger,
\* and STEADY is never entered while a query is in flight.
AllowedTransition(t) ==
  \/ t.from = t.to
  \/ /\ t.from = PHASE.QUERYING /\ t.to = PHASE.STEADY
     /\ t.by = "doneQuerying" /\ t.needToFetchEmpty /\ ~t.queryInFlight
  \/ /\ t.from = PHASE.QUERYING /\ t.to = PHASE.FETCHING
     /\ t.by = "doneQuerying" /\ ~t.needToFetchEmpty
  \/ /\ t.from = PHASE.FETCHING /\ t.to = PHASE.STEADY
     /\ t.by = "fetchModifiedDocuments" /\ t.needToFetchEmpty /\ ~t.queryInFlight
  \/ /\ t.from \in {PHASE.FETCHING, PHASE.STEADY} /\ t.to = PHASE.QUERYING
     /\ t.by = "needToPollQuery"
  \/ /\ t.from = PHASE.STEADY /\ t.to = PHASE.FETCHING
     /\ t.by = "handleOplogEntry"

C10_PhaseTransitions ==
  \A i \in DOMAIN transitions : AllowedTransition(transitions[i])

\* C8 (safety half): committed() is never called twice on the same token.
C8_CommittedAtMostOnce ==
  \A w \in DOMAIN committed : committed[w] <= 1

\* Some step that the scheduler, the oplog tailer, the fetcher or the
\* multiplexer owes the driver is still to come.
StepPending ==
  \/ oplog # <<>>
  \/ initialQuery
  \/ polls > 0
  \/ \E upTo \in BagToSet(waiters) : Processed >= upTo
  \/ \E l \in BagToSet(loops) : l.pc \in {"start", "resume"} \/ DOMAIN l.pending # {}
  \/ \E t \in fenceTasks : Processed >= t.upTo
  \/ flushQ # <<>>

\* C8: every captured write token is committed exactly once: never twice, and
\* a token is not left uncommitted once nothing is left to run.
C8_CommittedExactlyOnce ==
  \A w \in DOMAIN committed :
    /\ committed[w] <= 1
    /\ committed[w] = 0 => StepPending

InList(w) == \E i \in DOMAIN writesToCommitWhenWeReachSteady :
               writesToCommitWhenWeReachSteady[i] = w
InFenceTask(w) == \E t \in fenceTasks : t.tok = w

\* A token of a deferred write-fence task that finds the driver not stopped
\* and not in STEADY is appended to the pending list and not committed.
ArrivesPending(w) ==
  (InFenceTask(w) /\ ~InFenceTask(w)' /\ ~stopped /\ phase # PHASE.STEADY) =>
    /\ writesToCommitWhenWeReachSteady' = Append(writesToCommitWhenWeReachSteady, w)
    /\ committed' = committed

\* A pending token that stays pending is not committed by the step, whatever
\* phase change the step makes.
StaysPending(w) ==
  (InList(w) /\ InList(w)') => committed'[w] = committed[w]

\* A pending token leaves the list only in a step that enters STEADY, moves the
\* whole list into one onFlush callback and commits nothing.
LeavesByBeSteady(w) ==
  /\ phase' = PHASE.STEADY
  /\ writesToCommitWhenWeReachSteady' = <<>>
  /\ flushQ' = Append(flushQ, writesToCommitWhenWeReachSteady)
  /\ Count(emitted', "onFlush") = 1
  /\ committed' = committed

LeavesByStop(w) ==
  /\ ~stopped /\ stopped'
  /\ committed'[w] = committed[w] + 1

\* C9 as stated: a pending token is committed only through the onFlush
\* callback that beSteady registers.
C9_OnlyByFlush ==
  [][\A w \in DOMAIN committed :
       /\ ArrivesPending(w)
       /\ StaysPending(w)
       /\ (InList(w) /\ ~InList(w)') => LeavesByBeSteady(w)]_vars

\* C9 amended: ... or through stop(), which commits the pending tokens at once.
C9_OnlyByFlushOrStop ==
  [][\A w \in DOMAIN committed :
       /\ ArrivesPending(w)
       /\ StaysPending(w)
       /\ (InList(w) /\ ~InList(w)') => (LeavesByBeSteady(w) \/ LeavesByStop(w))]_vars

\* A token that was pending has just moved into beSteady's onFlush callback.
C9_Witness ==
  /\ ~stopped
  /\ phase = PHASE.STEADY
  /\ flushQ # <<>>
  /\ transitions # <<>>
  /\ \E i \in DOMAIN emitted : emitted[i].op = "onFlush" /\ emitted[i].n = MaxTokens


\* A callback of the batch l runs in this step.
CallsBack(l) ==
  /\ l.pc = "waiting"
  /\ CopiesIn(l, loops') < CopiesIn(l, loops)

\* The step mutates no cache, emits nothing and leaves the phase alone.
NoCacheEffect ==
  /\ published' = published
  /\ buffer' = buffer
  /\ safeAppendToBuffer' = safeAppendToBuffer
  /\ needToFetch' = needToFetch
  /\ phase' = phase
  /\ emitted' = <<>>
  /\ client' = client

\* _pollQuery runs in this step: it defers one more poll continuation.
PollQueryRuns == polls' = polls + 1

\* C11: fetchGeneration never decreases; pollQuery clears needToFetch and
\* currentlyFetching, increments fetchGeneration and sets QUERYING, which
\* supersedes every fetch in flight; a callback of a superseded fetch mutates
\* no cache and emits nothing.
C11_SupersededFetchesDiscarded ==
  [][/\ fetchGeneration' >= fetchGeneration
     /\ PollQueryRuns =>
          /\ needToFetch' = EmptyMap
          /\ currentlyFetching' = {}
          /\ fetchGeneration' = fetchGeneration + 1
          /\ phase' = PHASE.QUERYING
          /\ \A l \in BagToSet(loops') : l.pc = "waiting" => l.gen < fetchGeneration'
     /\ \A l \in BagToSet(loops) :
          (CallsBack(l) /\ l.gen < fetchGeneration) => NoCacheEffect]_vars

\* A callback of a superseded fetch has just run while the driver was back in
\* FETCHING, where only the generation tells it from a current one.
C11_Witness ==
  /\ ~stopped
  /\ phase = PHASE.FETCHING
  /\ emitted = <<>>
  /\ \E l \in BagToSet(loops) :
       /\ l.gen < fetchGeneration
       /\ l.gen > 0
       /\ l.waiting = 0
       /\ l.pc = "resume"


\* C12: once stop() has run, no later step raises an error, emits a callback,
\* registers an onFlush callback, or changes the phase or a cache; that covers
\* every continuation still scheduled or in flight, and a second stop().
C12_NothingHappensAfterStop ==
  [][stopped =>
       /\ stopped'
       /\ error' = error
       /\ client' = client
       /\ net' = net
       /\ emitted' = emitted \/ emitted' = <<>>
       /\ Len(flushQ') <= Len(flushQ)
       /\ phase' = phase
       /\ published' = published
       /\ buffer' = buffer
       /\ safeAppendToBuffer' = safeAppendToBuffer
       /\ needToFetch' = needToFetch
       /\ currentlyFetching' = currentlyFetching]_vars


\* C13: for a limited query, the step that runs _runInitialQuery leaves the
\* first min(k, limit) documents of the 2*limit cursor in published, one added
\* each, the remaining returned documents in the buffer, and
\* safeAppendToBuffer = (k < 2*limit).
C13_InitialQueryFillsBuffer ==
  [][(initialQuery /\ ~initialQuery' /\ limit > 0) =>
       \E qt \in TieBreaks :
         LET cursor == cursorForQuery(db, limit * 2, qt)
             k == Len(cursor)
         IN /\ DOMAIN published' = Range(Take(cursor, limit))
            /\ \A x \in DOMAIN published' : published'[x] = db[x]
            /\ Count(emitted', "added") = Min(k, limit)
            /\ DOMAIN buffer' = Range(Drop(cursor, limit))
            /\ \A x \in DOMAIN buffer' : buffer'[x] = db[x]
            /\ safeAppendToBuffer' = (k < limit * 2)]_vars


\* The oplog tailer hands the driver its next entry in this step.
Handles(e) == ~stopped /\ oplog # <<>> /\ Head(oplog) = e /\ oplog' = Tail(oplog)

\* In FETCHING an entry for an id that is being fetched, or is about to be, is
\* only recorded in needToFetch.
OnlyRecorded(e) ==
  phase = PHASE.FETCHING /\ (e.id \in currentlyFetching \/ Has(needToFetch, e.id))

Cached(id) == Has(published, id) \/ (limit > 0 /\ Has(buffer, id))

\* A modifier update that the driver can neither apply to a cached document
\* nor ignore: the document has to be fetched.
NeedsRefetch(e) ==
  /\ e.op = "u" /\ e.mod # {}
  /\ ~Cached(e.id)
  /\ \E mod \in e.mod : ~modifierCanBeDirectlyApplied(mod) \/ canBecomeTrueByModifier(mod)

\* In STEADY such an update records the id with the entry's timestamp, moves
\* to FETCHING and defers the fetch loop, emitting nothing.
RefetchRecorded ==
  \A e \in Range(oplog) :
    (Handles(e) /\ phase = PHASE.STEADY /\ NeedsRefetch(e)) =>
      /\ needToFetch' = Put(needToFetch, e.id, e.ts)
      /\ phase' = PHASE.FETCHING
      /\ loops' = loops (+) SetToBag({NewLoop("handleOplogEntry")})
      /\ emitted' = <<>>
      /\ published' = published /\ buffer' = buffer

\* The deferred loop, run in FETCHING, issues one fetch per recorded id, with
\* the recorded timestamp as its cache key.
FetchIssued ==
  LET loop == NewLoop("handleOplogEntry") IN
  (/\ BagIn(loop, loops) /\ CopiesIn(loop, loops') < CopiesIn(loop, loops)
   /\ ~stopped /\ phase = PHASE.FETCHING /\ Size(needToFetch) > 0) =>
    /\ \E l \in BagToSet(loops') :
         /\ l.pc = "waiting" /\ l.by = "handleOplogEntry"
         /\ l.pending = needToFetch /\ l.gen = fetchGeneration'
    /\ currentlyFetching' = DOMAIN needToFetch
    /\ needToFetch' = EmptyMap

\* The fetch of id in the batch l calls back without error in this step.
Returned(l, id) ==
  /\ CallsBack(l) /\ id \in DOMAIN l.pending
  /\ \E l2 \in BagToSet(loops') : l2.gen = l.gen /\ l2.pending = Remove(l.pending, id)
  /\ fetchErrors' = fetchErrors

\* ... in a loop that an update handled in STEADY started, with no repoll or
\* stop since the fetch was issued, for an id that is not cached and whose
\* document now matches.
ReturnedMatching(l, id) ==
  /\ Returned(l, id)
  /\ l.by = "handleOplogEntry"
  /\ ~stopped /\ phase = PHASE.FETCHING /\ l.gen = fetchGeneration
  /\ ~Cached(id)
  /\ id \in DOMAIN db /\ documentMatches(db[id])

AddedFirst(id) ==
  /\ emitted' # <<>>
  /\ emitted'[1] = [op |-> "added", id |-> id, n |-> db[id].n]
  /\ Has(published', id)

\* The document belongs to the published window of the query.
InWindow(doc) ==
  \/ limit = 0
  \/ Size(published) < limit
  \/ \E x \in DOMAIN published : comparator(doc, published[x]) < 0

\* The loop resumes after a batch without error, still in FETCHING with
\* nothing more to fetch: the driver returns to STEADY.
DrainedToSteady ==
  \A l \in BagToSet(loops) :
    (/\ l.pc = "resume" /\ CopiesIn(l, loops') < CopiesIn(l, loops)
     /\ l.by = "handleOplogEntry" /\ l.anyError = NoError /\ ~stopped /\ phase = PHASE.FETCHING /\ Size(needToFetch) = 0) =>
      /\ phase' = PHASE.STEADY
      /\ currentlyFetching' = {}

DoneQueryingResumes ==
  \E upTo \in BagToSet(waiters) : CopiesIn(upTo, waiters') < CopiesIn(upTo, waiters)

\* C16: a collection-drop notification handled before stop leads to a full
\* query that starts afterwards: outside QUERYING _pollQuery runs at once; in
\* QUERYING the requery flag is set, and the _doneQuerying that finds the flag
\* clears it and runs _pollQuery instead of entering STEADY or FETCHING.
C16_DropLeadsToRequery ==
  [][/\ \A e \in Range(oplog) :
          (Handles(e) /\ e.op = "drop") =>
            IF phase # PHASE.QUERYING
              THEN PollQueryRuns /\ phase' = PHASE.QUERYING
              ELSE /\ requeryWhenDoneThisQuery'
                   /\ phase' = PHASE.QUERYING
                   /\ polls' = polls
     /\ (DoneQueryingResumes /\ ~stopped /\ requeryWhenDoneThisQuery) =>
          /\ ~requeryWhenDoneThisQuery'
          /\ PollQueryRuns
          /\ phase' = PHASE.QUERYING]_vars


\* What the multiplexer is told by one call of _addMatching, _removeMatching
\* or _changePublished made on the driver as it is, for every argument the
\* handlers may pass: a matching document for an id that is not cached, a
\* cached id, a matching new version of a published document.
AddMatchingCalls ==
  {addMatching(Self(tb), id, doc).emit :
     tb \in TieBreaks, id \in {x \in scope.ids : ~Cached(x)},
     doc \in {d \in Docs : documentMatches(d)}}

RemoveMatchingCalls ==
  {removeMatching(Self(tb), id).emit :
     tb \in TieBreaks, id \in {x \in scope.ids : Cached(x)}}

ChangePublishedCalls ==
  UNION {{changePublished(Self(tb), id, published[id], doc).emit :
            tb \in TieBreaks, doc \in {d \in Docs : documentMatches(d)}} :
         id \in DOMAIN published}

\* C17 as stated: each such call emits at most one callback.
C17_AtMostOneCallback ==
  ~stopped =>
    \A calls \in AddMatchingCalls \cup RemoveMatchingCalls \cup ChangePublishedCalls :
      Len(calls) <= 1

\* C17 amended: at most one callback for an unlimited query and for
\* _changePublished; for a limited query _addMatching emits nothing, added, or
\* added followed by removed of the evicted document, and _removeMatching
\* emits nothing, removed, or removed followed by added of the promoted one.
C17_AtMostOneCallbackPerDocument ==
  ~stopped =>
    /\ \A calls \in ChangePublishedCalls :
         Len(calls) <= 1 /\ \A i \in DOMAIN calls : calls[i].op = "changed"
    /\ \A calls \in AddMatchingCalls :
         /\ Len(calls) <= (IF limit = 0 THEN 1 ELSE 2)
         /\ Len(calls) >= 1 => calls[1].op = "added"
         /\ Len(calls) = 2 => calls[2].op = "removed" /\ calls[2].id # calls[1].id
    /\ \A calls \in RemoveMatchingCalls :
         /\ Len(calls) <= (IF limit = 0 THEN 1 ELSE 2)
         /\ Len(calls) >= 1 => calls[1].op = "removed"
         /\ Len(calls) = 2 => calls[2].op = "added" /\ calls[2].id # calls[1].id

\* The last step the driver took handled one oplog entry by one call of
\* _addMatching, which published the document and evicted another.
C17_Witness ==
  /\ limit > 0 /\ ~stopped /\ Quiescent /\ error = "none"
  /\ Len(emitted) = 2
  /\ emitted[1].op = "added" /\ Has(published, emitted[1].id)
  /\ emitted[2].op = "removed" /\ Has(buffer, emitted[2].id)


\* A driver as its constructor leaves it, for a query with limit k.
NewDriver(k, tb) ==
  [published |-> EmptyMap, buffer |-> EmptyMap, safeAppendToBuffer |-> FALSE,
   phase |-> PHASE.QUERYING, needToFetch |-> EmptyMap, currentlyFetching |-> {},
   fetchGeneration |-> 0, requeryWhenDoneThisQuery |-> FALSE,
   writesToCommitWhenWeReachSteady |-> <<>>, initialQuery |-> FALSE,
   polls |-> 0, waiters |-> EmptyBag, loops |-> EmptyBag, flushQ |-> <<>>,
   limit |-> k, stopped |-> FALSE, tb |-> tb,
   emit |-> <<>>, trans |-> <<>>, thrown |-> "none"]

\* The deferred function of _pollQuery runs.
PollQueryReturns == polls' = polls - 1

\* The step left the driver's caches as s has them.
CachesAs(s) ==
  /\ published' = s.published
  /\ buffer' = s.buffer
  /\ safeAppendToBuffer' = s.safeAppendToBuffer

\* C18: when a poll query returns (R, B) and _publishNewResults(R, B) runs to
\* its end, the driver has the published set, the buffer and the
\* safeAppendToBuffer value of a new driver with the same limit whose initial
\* query returns R followed by B.
C18_PollAsFreshInitialQuery ==
  [][\A tb \in TieBreaks, qt \in TieBreaks :
       LET polled == pollQueryDeferred([Self(tb) EXCEPT !.polls = @ - 1], db, qt, nWrites)
           fresh == runInitialQuery(NewDriver(limit, tb), db, qt, nWrites)
       IN (PollQueryReturns /\ ~stopped /\ Ok(polled) /\ CachesAs(polled)) =>
            Ok(fresh) /\ CachesAs(fresh)]_vars


\* The driver enters STEADY in this step.
EntersSteady == phase # PHASE.STEADY /\ phase' = PHASE.STEADY

\* C19: an insert, update or delete entry handled in QUERYING only sets
\* needToFetch[id] to its timestamp; it emits nothing and leaves published,
\* buffer, phase and safeAppendToBuffer as they are.  The ids so recorded stay
\* in needToFetch, and in currentlyFetching while they are fetched, until
\* _handleDoc has classified them or _pollQuery has forgotten them, so the
\* driver enters STEADY only with needToFetch empty and no fetch outstanding.
C19_QueryingEntriesFetchedBeforeSteady ==
  [][/\ \A e \in Range(oplog) :
          (Handles(e) /\ e.op # "drop" /\ phase = PHASE.QUERYING) =>
            /\ needToFetch' = Put(needToFetch, e.id, e.ts)
            /\ emitted' = <<>>
            /\ published' = published /\ buffer' = buffer
            /\ phase' = phase /\ safeAppendToBuffer' = safeAppendToBuffer
     /\ EntersSteady => needToFetch' = EmptyMap /\ currentlyFetching' = {}]_vars


\* The fetch of id in the batch l calls back with an error in this step.
Failed(l, id) ==
  /\ CallsBack(l) /\ id \in DOMAIN l.pending
  /\ \E l2 \in BagToSet(loops') : l2.gen = l.gen /\ l2.pending = Remove(l.pending, id)
  /\ fetchErrors' = fetchErrors + 1

\* The batch l after the callback for id: the first error is kept, and the
\* loop may resume when no fetch of the batch is outstanding.
AfterFailure(l, id) ==
  [l EXCEPT !.pending = Remove(l.pending, id),
            !.waiting = l.waiting - 1,
            !.anyError = IF l.anyError = NoError THEN FetchError(id) ELSE l.anyError,
            !.pc = IF DOMAIN l.pending = {id} THEN "resume" ELSE "waiting"]

\* The fetch loop of the batch l continues after fut.wait() in this step.
Resumes(l) ==
  /\ l.pc = "resume"
  /\ CopiesIn(l, loops') < CopiesIn(l, loops)

\* C20: a fetch that calls back with an error is not passed to _handleDoc:
\* the step changes no cache, emits nothing and only records the error, the
\* first one of the batch being kept.  The loop resumes only when every fetch
\* of the batch has called back, a batch with an error whose fetches have all
\* called back does resume, and when it resumes it throws the first error,
\* starts no other batch and does not call _beSteady.
C20_FailedBatchFailsAfterAllFetches ==
  [][/\ \A l \in BagToSet(loops) :
          /\ l.pc = "resume" => DOMAIN l.pending = {}
          /\ (l.anyError # NoError /\ DOMAIN l.pending = {}) => l.pc = "resume"
          /\ \A id \in DOMAIN l.pending :
               Failed(l, id) =>
                 /\ NoCacheEffect
                 /\ error' = error
                 /\ loops' = (loops (-) SetToBag({l})) (+) SetToBag({AfterFailure(l, id)})
          /\ (Resumes(l) /\ l.anyError # NoError) =>
               /\ error' = l.anyError
               /\ loops' = loops (-) SetToBag({l})
               /\ NoCacheEffect
               /\ fetchGeneration' = fetchGeneration
               /\ currentlyFetching' = currentlyFetching
               /\ transitions' = <<>>]_vars


\* C21: limited query, STEADY, every oplog entry written has been processed
\* and safeAppendToBuffer is true: every document of the collection that
\* matches the selector is in published or in the buffer.
C21_SafeAppendMeansAllCached ==
  (limit > 0 /\ phase = PHASE.STEADY /\ ~stopped /\ oplog = <<>> /\ safeAppendToBuffer)
    => \A id \in Matching : Cached(id)


\* The function a call of _fetchModifiedDocuments by the caller by deferred
\* starts in this step.
Starts(by) ==
  CopiesIn(NewLoop(by), loops') < CopiesIn(NewLoop(by), loops)

\* The fetch loop l leaves: no fetch is issued, no error raised, _beSteady is
\* not called.
ReturnsQuietly(l) ==
  /\ loops' = loops (-) SetToBag({l})
  /\ error' = error
  /\ phase' = phase
  /\ transitions' = <<>>
  /\ emitted' = <<>>
  /\ needToFetch' = needToFetch
  /\ currentlyFetching' = currentlyFetching
  /\ fetchGeneration' = fetchGeneration

\* C22: a fetch loop that starts, or resumes after a batch, on a driver whose
\* phase is no longer FETCHING returns quietly; the fetch loop calls _beSteady
\* only with needToFetch empty and the phase still FETCHING.
C22_CancelledLoopReturns ==
  [][~stopped =>
       /\ \A by \in LoopOrigins :
            /\ (Starts(by) /\ phase # PHASE.FETCHING) => ReturnsQuietly(NewLoop(by))
            /\ (Starts(by) /\ phase' = PHASE.STEADY) =>
                 phase = PHASE.FETCHING /\ Size(needToFetch) = 0
       /\ \A l \in BagToSet(loops) :
            /\ (Resumes(l) /\ l.anyError = NoError /\ phase # PHASE.FETCHING) =>
                 ReturnsQuietly(l)
            /\ (Resumes(l) /\ phase' = PHASE.STEADY) =>
                 phase = PHASE.FETCHING /\ Size(needToFetch) = 0]_vars


\* A maximum of the heap h under the comparator.
MaxOf(h) == h[CHOOSE x \in DOMAIN h : \A y \in DOMAIN h : comparator(h[x], h[y]) >= 0]

\* Where C23 places a matching document that is not cached.
PlacePublished(doc) ==
  \/ limit = 0
  \/ Size(published) < limit
  \/ comparator(doc, MaxOf(published)) < 0

PlaceBuffered(doc) ==
  /\ ~PlacePublished(doc)
  /\ \/ safeAppendToBuffer /\ Size(buffer) < limit
     \/ Size(buffer) > 0 /\ comparator(doc, MaxOf(buffer)) <= 0

\* C23: _addMatching(doc) on the driver as it is, for every id and every
\* matching document: a cached id raises an error and changes nothing; an id
\* that is not cached is published, buffered or stored nowhere (with
\* safeAppendToBuffer false) as the placement rule says.
C23_AddMatchingPlacement ==
  ~stopped =>
    \A tb \in TieBreaks, id \in scope.ids, doc \in {d \in Docs : documentMatches(d)} :
      LET after == addMatching(Self(tb), id, doc) IN
      IF Cached(id)
        THEN /\ ~Ok(after)
             /\ after.published = published /\ after.buffer = buffer
             /\ after.safeAppendToBuffer = safeAppendToBuffer
             /\ after.emit = <<>>
      ELSE IF PlacePublished(doc)
        THEN /\ Ok(after)
             /\ Has(after.published, id) /\ after.published[id] = doc
             /\ ~Has(after.buffer, id)
      ELSE IF PlaceBuffered(doc)
        THEN /\ Ok(after)
             /\ Has(after.buffer, id) /\ after.buffer[id] = doc
             /\ after.published = published
      ELSE /\ Ok(after)
           /\ after.published = published /\ after.buffer = buffer
           /\ ~after.safeAppendToBuffer


\* C23 amended: as C23, but a document that is to be buffered goes through
\* _addBuffered: it is in the buffer afterwards unless the buffer was full and
\* the document ties with the buffer's maximum, in which case either of the
\* two may be the one dropped; whenever the buffer was full, one maximum is
\* dropped and safeAppendToBuffer becomes false.
C23_AddMatchingPlacementUpToTies ==
  ~stopped =>
    \A tb \in TieBreaks, id \in scope.ids, doc \in {d \in Docs : documentMatches(d)} :
      LET after == addMatching(Self(tb), id, doc) IN
      IF Cached(id)
        THEN /\ ~Ok(after)
             /\ after.published = published /\ after.buffer = buffer
             /\ after.safeAppendToBuffer = safeAppendToBuffer
             /\ after.emit = <<>>
      ELSE IF PlacePublished(doc)
        THEN /\ Ok(after)
             /\ Has(after.published, id) /\ after.published[id] = doc
             /\ ~Has(after.buffer, id)
      ELSE IF PlaceBuffered(doc)
        THEN /\ Ok(after)
             /\ after.published = published
             /\ IF Size(buffer) < limit
                  THEN /\ after.buffer = Put(buffer, id, doc)
                       /\ after.safeAppendToBuffer = safeAppendToBuffer
                  ELSE /\ ~after.safeAppendToBuffer
                       /\ Size(after.buffer) = limit
                       /\ \/ /\ Has(after.buffer, id) /\ after.buffer[id] = doc
                             /\ \E x \in DOMAIN buffer :
                                  /\ after.buffer = Remove(Put(buffer, id, doc), x)
                                  /\ comparator(buffer[x], MaxOf(buffer)) = 0
                          \/ /\ after.buffer = buffer
                             /\ comparator(doc, MaxOf(buffer)) = 0
      ELSE /\ Ok(after)
           /\ after.published = published /\ after.buffer = buffer
           /\ ~after.safeAppendToBuffer

\* The one write of the run was an insert that the driver, at rest in STEADY
\* with published full, placed in the buffer without telling the multiplexer.
C23_Witness ==
  /\ limit > 0 /\ ~stopped /\ Quiescent /\ phase = PHASE.STEADY /\ error = "none"
  /\ nWrites = 1 /\ emitted = <<>>
  /\ Size(published) = limit /\ Size(buffer) = 1


\* after differs from the driver as it is only in the buffer.
OnlyBufferChanged(after) ==
  /\ after.phase = phase
  /\ after.needToFetch = needToFetch
  /\ after.fetchGeneration = fetchGeneration
  /\ after.requeryWhenDoneThisQuery = requeryWhenDoneThisQuery
  /\ after.polls = polls
  /\ after.trans = <<>>

C25_PhaseIsQueryingWhenQueryEnds ==
  [][/\ (DoneQueryingResumes /\ ~stopped) => phase = PHASE.QUERYING
     /\ error' # "Phase unexpectedly"]_vars


\* C26: the assertion of _removePublished never fails: the error "At this
\* phase, buffer can be empty only if published contains the whole matching
\* set" is never raised.
C26_RemovePublishedAssertionHolds ==
  error # "At this phase, buffer can be empty only if published contains the whole matching set"


\* C27: a driver that is not stopped and to which the scheduler, the oplog
\* tailer and the fetcher owe no further step (every entry written has been
\* processed, every query, fetch and continuation has run) is in STEADY with
\* needToFetch empty.
C27_SettlesInSteady ==
  (~stopped /\ ~StepPending) => (phase = PHASE.STEADY /\ Size(needToFetch) = 0)

====
